---- MODULE Spec2Model ----
(***************************************************************************)
(* Model of download.py: the shortcode parser, the dedup check against     *)
(* the download directories, and the sequential URL loop of main() with    *)
(* its counters, temporary directories, file placement and logs.           *)
(* Strings that the code inspects character by character (URLs, file       *)
(* names, shortcodes) are sequences of one-character strings.              *)
(***************************************************************************)
EXTENDS Integers, Sequences, FiniteSets, TLC

VARIABLES
    run,          \* number of the current invocation of main()
    urls,         \* lines of instagram_urls.txt, in file order
    idx,          \* number of lines the for loop has consumed
    pc,           \* position of main(): "loop", "download", "place", "cleanup", "done"
    total_urls,   \* main: total_urls
    processed,    \* main: processed
    skipped,      \* main: skipped
    failed,       \* main: failed
    post,         \* main: post (typename, is_video) returned by Post.from_shortcode
    albums,       \* instagram-downloads/albums/<shortcode>/ : per shortcode a directory or none
    images,       \* file names in instagram-downloads/individual_images/
    videos,       \* file names in instagram-downloads/individual_videos/
    temp,         \* temp_<shortcode>/ : per shortcode a directory or none
    log,          \* records logged by the loop of the current run
    sleeps,       \* number of time.sleep(args.delay) calls of the current run
    summaries,    \* the summaries logged by the completed runs
    url_in,       \* argument of a standalone extract_shortcode_from_url call
    sc_out,       \* << >> before the call, then << its outcome >>
    dd_in,        \* arguments of a standalone is_already_downloaded call
    dd_out        \* << >> before the call, then << its result >>

vars == << run, urls, idx, pc, total_urls, processed, skipped, failed, post, albums,
           images, videos, temp, log, sleeps, summaries, url_in, sc_out, dd_in, dd_out >>

----
(* Bounds *)

MaxUrls == 2

MaxRuns == 2

MaxPath == 5

----
(* Strings *)

\* str.endswith(suffix)
endswith(s, suffix) ==
    /\ Len(suffix) <= Len(s)
    /\ SubSeq(s, Len(s) - Len(suffix) + 1, Len(s)) = suffix

\* str.endswith((suffix, ...))
endswith_any(s, suffixes) ==
    \E x \in suffixes : endswith(s, x)

\* `sub in s` for strings
contains(sub, s) ==
    \E i \in 1..(Len(s) - Len(sub) + 1) : SubSeq(s, i, i + Len(sub) - 1) = sub

\* str.strip(): leading and trailing whitespace removed
RECURSIVE lstrip(_)
lstrip(s) ==
    IF s # << >> /\ Head(s) = " " THEN lstrip(Tail(s)) ELSE s

RECURSIVE rstrip(_)
rstrip(s) ==
    IF s # << >> /\ s[Len(s)] = " " THEN rstrip(SubSeq(s, 1, Len(s) - 1)) ELSE s

strip(s) == rstrip(lstrip(s))

----
(* extract_shortcode_from_url *)

\* the literal part of the pattern r"instagram\.com/p/([^/]+)/?"
PatternLiteral ==
    << "i", "n", "s", "t", "a", "g", "r", "a", "m", ".", "c", "o", "m", "/", "p", "/" >>

\* the character class [^/]
TokenCharOrQuery(c) == c # "/" /\ c # "?"

TokenChar(c) == c # "/"

\* ([^/]+) is greedy: the longest run of class characters starting at j
RECURSIVE group1(_, _)
group1(url, j) ==
    IF j <= Len(url) /\ TokenChar(url[j])
    THEN << url[j] >> \o group1(url, j + 1)
    ELSE << >>

\* the pattern matches at position i: the literal, then at least one class character
match_at(url, i) ==
    /\ i + Len(PatternLiteral) <= Len(url)
    /\ SubSeq(url, i, i + Len(PatternLiteral) - 1) = PatternLiteral
    /\ TokenChar(url[i + Len(PatternLiteral)])

ValueError == [ok |-> FALSE, val |-> << >>]

Return(v) == [ok |-> TRUE, val |-> v]

\* re.search finds the leftmost match; match.group(1) is returned, else ValueError
extract_shortcode_from_url(url) ==
    IF \E i \in 1..Len(url) : match_at(url, i)
    THEN LET i == CHOOSE k \in 1..Len(url) :
                      match_at(url, k) /\ \A m \in 1..(k - 1) : ~match_at(url, m)
         IN  Return(group1(url, i + Len(PatternLiteral)))
    ELSE ValueError

----
(* is_already_downloaded *)

NoDir == [exists |-> FALSE, names |-> {}]

Dir(names) == [exists |-> TRUE, names |-> names]

\* os.path.exists(os.path.join(base_dir, "albums", shortcode))
album_exists(sc, albums_dir) ==
    albums_dir.exists /\ sc \in albums_dir.names

\* os.path.exists(d) and some filename of os.listdir(d) contains the shortcode
listed_in(sc, d) ==
    d.exists /\ \E filename \in d.names : contains(sc, filename)

is_already_downloaded_no_video_scan(sc, albums_dir, img_dir, vid_dir, post_type) ==
    IF post_type = "album" THEN album_exists(sc, albums_dir)
    ELSE IF post_type = "image" THEN listed_in(sc, img_dir)
    ELSE IF post_type = "video" THEN listed_in(sc, vid_dir)
    ELSE IF album_exists(sc, albums_dir) THEN TRUE
    ELSE IF listed_in(sc, img_dir) THEN TRUE
    ELSE FALSE

\* post_type is "album", "image", "video" or "None"
is_already_downloaded(sc, albums_dir, img_dir, vid_dir, post_type) ==
    IF post_type = "album" THEN album_exists(sc, albums_dir)
    ELSE IF post_type = "image" THEN listed_in(sc, img_dir)
    ELSE IF post_type = "video" THEN listed_in(sc, vid_dir)
    ELSE IF album_exists(sc, albums_dir) THEN TRUE
    ELSE IF listed_in(sc, img_dir) THEN TRUE
    ELSE IF listed_in(sc, vid_dir) THEN TRUE
    ELSE FALSE

----
(* The input file and the posts behind the URLs *)

ShortcodeA == << "A" >>

ShortcodeB == << "B" >>

Shortcodes == {ShortcodeA, ShortcodeB}

\* "instagram.com/p/A/"
UrlA == PatternLiteral \o ShortcodeA \o << "/" >>

\* "instagram.com/p/B " (no trailing slash, trailing whitespace on the line)
UrlB == PatternLiteral \o ShortcodeB \o << " " >>

\* "p/A": no match of the pattern
UrlBad == << "p", "/", "A" >>

\* a line holding only whitespace
BlankLine == << " " >>

Lines == {UrlA, UrlB, UrlBad, BlankLine}

UrlLists == UNION {[1..n -> Lines] : n \in 0..MaxUrls}

JPG == << ".", "j", "p", "g" >>

JPEG == << ".", "j", "p", "e", "g" >>

PNG == << ".", "p", "n", "g" >>

MP4 == << ".", "m", "p", "4" >>

\* names download_post may give its files: an image with the shortcode in its
\* name ("A.jpg"), a video named by date, without it ("d.mp4"); the Instaloader
\* instance is configured to write media files only (no .json, no .txt)
FileNames ==
    { ShortcodeA \o JPG, << "d" >> \o MP4 }

\* the files one call of download_post may write
FileSets == SUBSET FileNames

\* post.typename and post.is_video as Post.from_shortcode may report them
Posts ==
    { [typename |-> "GraphSidecar", is_video |-> FALSE],
      [typename |-> "GraphImage", is_video |-> FALSE],
      [typename |-> "GraphVideo", is_video |-> TRUE] }

NoPost == [typename |-> "none", is_video |-> FALSE]

\* individual_images/ when main() starts: empty, or holding the image of post A
\* that an earlier use of the script downloaded
PriorImages == { {}, {ShortcodeA \o JPG} }

\* total_urls = sum(1 for line in f if line.strip())
count_urls(lines) ==
    Cardinality({i \in 1..Len(lines) : strip(lines[i]) # << >>})

\* the directory listing of instagram-downloads/albums
albums_listing ==
    Dir({s \in Shortcodes : albums[s].exists})

\* url = line.strip() of the line the loop is at
url_at(line) == strip(urls[line])

\* main: shortcode, once extract_shortcode_from_url has returned for the current line
shortcode == extract_shortcode_from_url(url_at(idx)).val

----
(* main(): the loop over the lines of the input file *)

MainInit ==
    /\ run = 1
    /\ urls \in UrlLists
    /\ idx = 0
    /\ pc = "loop"
    /\ total_urls = count_urls(urls)
    /\ processed = 0
    /\ skipped = 0
    /\ failed = 0
    /\ post = NoPost
    /\ albums = [s \in Shortcodes |-> NoDir]
    /\ images \in PriorImages
    /\ videos = {}
    /\ temp = [s \in Shortcodes |-> NoDir]
    /\ log = << >>
    /\ sleeps = 0
    /\ summaries = << >>

LogRecord(line, event, err) ==
    [line |-> line, event |-> event, err |-> err]

ExceptHandlerBreak(line, err) ==
    /\ failed' = failed + 1
    /\ log' = Append(log, LogRecord(line, "error", err))
    /\ post' = NoPost
    /\ pc' = "loop"
    /\ idx' = Len(urls)

\* except Exception as e: failed += 1; logger.error(...); the for loop goes on
\* with the next line (post is not read again before it is reassigned)
ExceptHandler(line, err) ==
    /\ failed' = failed + 1
    /\ log' = Append(log, LogRecord(line, "error", err))
    /\ post' = NoPost
    /\ pc' = "loop"
    /\ idx' = line

\* if processed > 1: time.sleep(args.delay)
NeedDelay(p) == p > 1

\* if not url: continue
SkipBlank ==
    /\ pc = "loop"
    /\ idx < Len(urls)
    /\ url_at(idx + 1) = << >>
    /\ idx' = idx + 1
    /\ UNCHANGED << run, urls, pc, total_urls, processed, skipped, failed, post,
                    albums, images, videos, temp, log, sleeps, summaries >>

\* extract_shortcode_from_url raises
ParseFail ==
    /\ pc = "loop"
    /\ idx < Len(urls)
    /\ url_at(idx + 1) # << >>
    /\ ~extract_shortcode_from_url(url_at(idx + 1)).ok
    /\ ExceptHandler(idx + 1, "parse")
    /\ UNCHANGED << run, urls, total_urls, processed, skipped,
                    albums, images, videos, temp, sleeps, summaries >>

\* is_already_downloaded(shortcode, base_dir) is true: skipped += 1; continue
SkipDownloaded ==
    /\ pc = "loop"
    /\ idx < Len(urls)
    /\ url_at(idx + 1) # << >>
    /\ LET r == extract_shortcode_from_url(url_at(idx + 1))
       IN  /\ r.ok
           /\ is_already_downloaded(r.val, albums_listing, Dir(images), Dir(videos), "None")
    /\ processed' = processed + 1
    /\ skipped' = skipped + 1
    /\ log' = Append(log, LogRecord(idx + 1, "skip", "none"))
    /\ idx' = idx + 1
    /\ UNCHANGED << run, urls, pc, total_urls, failed, post, albums, images, videos,
                    temp, sleeps, summaries >>

\* not downloaded yet; the delay when due; Post.from_shortcode raises
FetchFail ==
    /\ pc = "loop"
    /\ idx < Len(urls)
    /\ url_at(idx + 1) # << >>
    /\ LET r == extract_shortcode_from_url(url_at(idx + 1))
       IN  /\ r.ok
           /\ ~is_already_downloaded(r.val, albums_listing, Dir(images), Dir(videos), "None")
    /\ processed' = processed + 1
    /\ sleeps' = IF NeedDelay(processed + 1) THEN sleeps + 1 ELSE sleeps
    /\ ExceptHandler(idx + 1, "fetch")
    /\ UNCHANGED << run, urls, total_urls, skipped, albums, images, videos,
                    temp, summaries >>

\* not downloaded yet; the delay when due; Post.from_shortcode returns p;
\* os.makedirs(temp_dir, exist_ok=True)
FetchOk(p) ==
    /\ pc = "loop"
    /\ idx < Len(urls)
    /\ url_at(idx + 1) # << >>
    /\ LET r == extract_shortcode_from_url(url_at(idx + 1))
       IN  /\ r.ok
           /\ ~is_already_downloaded(r.val, albums_listing, Dir(images), Dir(videos), "None")
           /\ temp' = [temp EXCEPT ![r.val] = IF @.exists THEN @ ELSE Dir({})]
    /\ processed' = processed + 1
    /\ sleeps' = IF NeedDelay(processed + 1) THEN sleeps + 1 ELSE sleeps
    /\ post' = p
    /\ log' = Append(log, LogRecord(idx + 1, "downloading", "none"))
    /\ idx' = idx + 1
    /\ pc' = "download"
    /\ UNCHANGED << run, urls, total_urls, skipped, failed, albums, images, videos,
                    summaries >>

\* L.download_post(post, target=temp_dir) writes the files and returns
DownloadOk(files) ==
    /\ pc = "download"
    /\ files # {}
    /\ temp' = [temp EXCEPT ![shortcode] = Dir(@.names \cup files)]
    /\ pc' = "place"
    /\ UNCHANGED << run, urls, idx, total_urls, processed, skipped, failed, post,
                    albums, images, videos, log, sleeps, summaries >>

\* L.download_post raises after writing some (possibly none) of the files
DownloadFail(files) ==
    /\ pc = "download"
    /\ temp' = [temp EXCEPT ![shortcode] = Dir(@.names \cup files)]
    /\ ExceptHandler(idx, "download")
    /\ UNCHANGED << run, urls, total_urls, processed, skipped,
                    albums, images, videos, sleeps, summaries >>

ImageSuffixes == {JPG, JPEG, PNG}

MediaSuffixes == {JPG, JPEG, PNG, MP4}

\* where the placement code moves a file of temp_dir; "none": it is left there
Destination(filename, p) ==
    IF p.typename = "GraphSidecar"
    THEN IF endswith_any(filename, MediaSuffixes) THEN "album" ELSE "none"
    ELSE IF endswith_any(filename, ImageSuffixes) /\ ~p.is_video THEN "images"
    ELSE IF endswith(filename, MP4) THEN "videos"
    ELSE "none"

Movable == {f \in temp[shortcode].names : Destination(f, post) # "none"}

\* os.makedirs(album_subdir, exist_ok=True) for an album, then shutil.move of
\* each file of `moved` to its destination
MoveFiles(moved) ==
    /\ albums' = IF post.typename = "GraphSidecar"
                 THEN [albums EXCEPT ![shortcode] = Dir(@.names \cup moved)]
                 ELSE albums
    /\ images' = images \cup {f \in moved : Destination(f, post) = "images"}
    /\ videos' = videos \cup {f \in moved : Destination(f, post) = "videos"}
    /\ temp' = [temp EXCEPT ![shortcode] = Dir(@.names \ moved)]

\* every media file of temp_dir is moved
PlaceOk ==
    /\ pc = "place"
    /\ MoveFiles(Movable)
    /\ pc' = "cleanup"
    /\ UNCHANGED << run, urls, idx, total_urls, processed, skipped, failed, post,
                    log, sleeps, summaries >>

\* shutil.move raises after the files of `moved` were moved
PlaceFail(moved) ==
    /\ pc = "place"
    /\ moved \subseteq Movable
    /\ moved # Movable
    /\ MoveFiles(moved)
    /\ ExceptHandler(idx, "place")
    /\ UNCHANGED << run, urls, total_urls, processed, skipped, sleeps, summaries >>

\* shutil.rmtree(temp_dir); success_logger.info(...); logger.info(...)
CleanupOk ==
    /\ pc = "cleanup"
    /\ temp' = [temp EXCEPT ![shortcode] = NoDir]
    /\ log' = Append(log, LogRecord(idx, "finished", "none"))
    /\ post' = NoPost
    /\ pc' = "loop"
    /\ UNCHANGED << run, urls, idx, total_urls, processed, skipped, failed,
                    albums, images, videos, sleeps, summaries >>

\* shutil.rmtree raises, leaving the directory with the files of `left`
CleanupFail(left) ==
    /\ pc = "cleanup"
    /\ left \subseteq temp[shortcode].names
    /\ temp' = [temp EXCEPT ![shortcode] = Dir(left)]
    /\ ExceptHandler(idx, "cleanup")
    /\ UNCHANGED << run, urls, total_urls, processed, skipped,
                    albums, images, videos, sleeps, summaries >>

\* the summary logged after the loop
SummaryRecord ==
    [total |-> total_urls, succeeded |-> processed - skipped - failed,
     skipped |-> skipped, failed |-> failed]

Summary ==
    /\ pc = "loop"
    /\ idx = Len(urls)
    /\ summaries' = Append(summaries, SummaryRecord)
    /\ pc' = "done"
    /\ UNCHANGED << run, urls, idx, total_urls, processed, skipped, failed, post,
                    albums, images, videos, temp, log, sleeps >>

\* the script is run again on the same input file and the same directories
NextRun ==
    /\ pc = "done"
    /\ run < MaxRuns
    /\ run' = run + 1
    /\ total_urls' = count_urls(urls)
    /\ processed' = 0
    /\ skipped' = 0
    /\ failed' = 0
    /\ idx' = 0
    /\ pc' = "loop"
    /\ log' = << >>
    /\ sleeps' = 0
    /\ UNCHANGED << urls, post, albums, images, videos, temp, summaries >>

\* the variables of the standalone calls, while main() runs
NoArgs ==
    [sc |-> << >>, albums_dir |-> NoDir, img_dir |-> NoDir, vid_dir |-> NoDir,
     post_type |-> "None"]

PureIdle ==
    /\ url_in = << >>
    /\ sc_out = << >>
    /\ dd_in = NoArgs
    /\ dd_out = << >>

pureVars == << url_in, sc_out, dd_in, dd_out >>

mainVars == << run, urls, idx, pc, total_urls, processed, skipped, failed, post, albums,
               images, videos, temp, log, sleeps, summaries >>

Init ==
    /\ MainInit
    /\ PureIdle

\* one run of main()
Next ==
    \/ SkipBlank /\ UNCHANGED pureVars
    \/ ParseFail /\ UNCHANGED pureVars
    \/ SkipDownloaded /\ UNCHANGED pureVars
    \/ FetchFail /\ UNCHANGED pureVars
    \/ (\E p \in Posts : FetchOk(p)) /\ UNCHANGED pureVars
    \/ (\E files \in FileSets : DownloadOk(files)) /\ UNCHANGED pureVars
    \/ (\E files \in FileSets : DownloadFail(files)) /\ UNCHANGED pureVars
    \/ PlaceOk /\ UNCHANGED pureVars
    \/ (\E moved \in SUBSET FileNames : PlaceFail(moved)) /\ UNCHANGED pureVars
    \/ CleanupOk /\ UNCHANGED pureVars
    \/ (\E left \in SUBSET FileNames : CleanupFail(left)) /\ UNCHANGED pureVars
    \/ Summary /\ UNCHANGED pureVars

Spec == Init /\ [][Next]_vars

\* runs of main() one after the other on the same file and directories
NextRerun ==
    \/ Next
    \/ NextRun /\ UNCHANGED pureVars

SpecRerun == Init /\ [][NextRerun]_vars

----
(* extract_shortcode_from_url called on its own *)

PathChars == {"/", "p", "a", "?"}

Paths == UNION {[1..n -> PathChars] : n \in 0..MaxPath}

\* "instagram.com/", "instagramXcom/", "x/", " instagram.com/p//instagram.com/"
Prefixes ==
    { SubSeq(PatternLiteral, 1, 14),
      SubSeq(PatternLiteral, 1, 9) \o << "X" >> \o SubSeq(PatternLiteral, 11, 14),
      << "x", "/" >>,
      PatternLiteral \o << "/" >> \o SubSeq(PatternLiteral, 1, 14) }

ParseUrls == {pre \o path : pre \in Prefixes, path \in Paths}

MainIdle ==
    /\ MainInit
    /\ urls = << >>
    /\ images = {}

InitParse ==
    /\ MainIdle
    /\ url_in \in ParseUrls
    /\ sc_out = << >>
    /\ dd_in = NoArgs
    /\ dd_out = << >>

Parse ==
    /\ sc_out = << >>
    /\ sc_out' = << extract_shortcode_from_url(url_in) >>
    /\ UNCHANGED << url_in, dd_in, dd_out >>
    /\ UNCHANGED mainVars

NextParse == Parse

SpecParse == InitParse /\ [][NextParse]_vars

----
(* is_already_downloaded called on its own *)

\* file names of the flat directories: "A.jpg", "d.mp4", "d.jpg", "B.mp4"
DedupNames == FileNames \cup { << "d" >> \o JPG, ShortcodeB \o MP4 }

FlatDirs == {NoDir} \cup {Dir(names) : names \in SUBSET DedupNames}

AlbumDirs == {NoDir} \cup {Dir(names) : names \in SUBSET Shortcodes}

PostTypes == {"album", "image", "video", "None"}

DedupArgs ==
    [sc : Shortcodes, albums_dir : AlbumDirs, img_dir : FlatDirs, vid_dir : FlatDirs,
     post_type : PostTypes]

Call(a) ==
    is_already_downloaded(a.sc, a.albums_dir, a.img_dir, a.vid_dir, a.post_type)

InitDedup ==
    /\ MainIdle
    /\ url_in = << >>
    /\ sc_out = << >>
    /\ dd_in \in DedupArgs
    /\ dd_out = << >>

Check ==
    /\ dd_out = << >>
    /\ dd_out' = << Call(dd_in) >>
    /\ UNCHANGED << url_in, sc_out, dd_in >>
    /\ UNCHANGED mainVars

NextDedup == Check

SpecDedup == InitDedup /\ [][NextDedup]_vars

----
(* Properties of the loop of main() *)

\* the log records that end the processing of a line
TerminalRecords == SelectSeq(log, LAMBDA r : r.event # "downloading")

TerminalLines == [k \in 1..Len(TerminalRecords) |-> TerminalRecords[k].line]

\* the non-blank lines among the first n, in file order
RECURSIVE NonBlankUpTo(_)
NonBlankUpTo(n) ==
    IF n = 0 THEN << >>
    ELSE IF url_at(n) # << >> THEN Append(NonBlankUpTo(n - 1), n)
    ELSE NonBlankUpTo(n - 1)

ErrorCount == Len(SelectSeq(log, LAMBDA r : r.event = "error"))

FinishedCount == Len(SelectSeq(log, LAMBDA r : r.event = "finished"))

\* Post.from_shortcode was called for some line of the current run
Fetched(records) ==
    \E k \in 1..Len(records) :
        records[k].event \in {"downloading", "finished"}
            \/ (records[k].event = "error" /\ records[k].err # "parse")

\* the shortcode of a line whose URL parses
shortcode_of(line) == extract_shortcode_from_url(url_at(line)).val

LastRecord == log[Len(log)]

\* C1: per-URL failure isolation. Every non-blank line gets exactly one outcome
\* (skip, finished or error), in file order; failed counts exactly the lines
\* whose processing raised; after a failure the loop can go on (to the next line
\* or to the summary), and the summary is logged only after the last line.
C1_FailureIsolation ==
    /\ TerminalLines = NonBlankUpTo(IF pc \in {"loop", "done"} THEN idx ELSE idx - 1)
    /\ failed = ErrorCount
    /\ pc = "done" => idx = Len(urls)
    /\ (pc = "loop" /\ log # << >> /\ LastRecord.event = "error") => ENABLED Next

\* a fetch error on one line, and a later line downloaded to the end
C1_Witness ==
    /\ pc = "done"
    /\ failed = 1
    /\ Len(log) >= 3
    /\ log[1].event = "error" /\ log[1].err = "fetch"
    /\ LastRecord.event = "finished"
    /\ LastRecord.line > log[1].line

\* C2: idempotence across runs. When the first run had no failure, the second
\* run on the same list fetches nothing: each of its outcomes is a skip.
C2_SecondRunFetchesNothing ==
    (run = 2 /\ summaries[1].failed = 0) => ~Fetched(log)

\* C3: temp-directory cleanup. When the processing of a line has ended in
\* success, or in an exception of the download or placement step, and the loop
\* is back at its head, temp_<shortcode> does not exist.
C3_TempDirRemoved ==
    ( /\ pc = "loop"
      /\ log # << >>
      /\ \/ LastRecord.event = "finished"
         \/ LastRecord.event = "error" /\ LastRecord.err \in {"download", "place"} )
    => ~temp[shortcode_of(LastRecord.line)].exists

\* C4: summary accounting. The succeeded count of the summary is the number of
\* URLs downloaded to the end in the run, is not negative, and
\* succeeded + skipped + failed is the number of non-blank lines.
C4_SummaryAccounting ==
    pc = "done" =>
        LET s == summaries[Len(summaries)] IN
            /\ s.succeeded = FinishedCount
            /\ s.succeeded >= 0
            /\ s.succeeded + s.skipped + s.failed = s.total

\* C5: one final location per shortcode. The files a successful placement
\* moves out of temp_<shortcode> all end in the same one of albums/<shortcode>/,
\* individual_images/ and individual_videos/.
C5_OneLocation ==
    [][ (pc = "place" /\ pc' = "cleanup") =>
            LET moved == temp[shortcode].names \ temp'[shortcode].names IN
                \/ albums'[shortcode].exists /\ moved \subseteq albums'[shortcode].names
                \/ moved \subseteq images'
                \/ moved \subseteq videos' ]_vars

\* C8: rate-limit delay. time.sleep is called exactly before the fetches that
\* are not the first fetch of the run; lines that are skipped or fail to parse
\* never cause a delay, wherever they stand.
C8_DelayExceptFirstFetch ==
    [][ LET fetch == /\ pc = "loop"
                     /\ \/ pc' = "download"
                        \/ /\ Len(log') = Len(log) + 1
                           /\ log'[Len(log')].err = "fetch"
        IN  sleeps' = sleeps + (IF fetch /\ Fetched(log) THEN 1 ELSE 0) ]_vars

\* C9: fresh temp directory. When download_post is about to write into
\* temp_<shortcode>, the directory is empty.
C9_FreshTempDir ==
    pc = "download" => temp[shortcode] = Dir({})

\* C10: failed URLs are retried. When every URL of the first run ended in a
\* failure, the second run skips none of them.
C10_FailedIsRetried ==
    (run = 2 /\ summaries[1].failed = summaries[1].total) => skipped = 0

----
(* Properties of is_already_downloaded *)

\* the shortcode is in none of the three directories
Absent(a) ==
    /\ ~(a.albums_dir.exists /\ a.sc \in a.albums_dir.names)
    /\ \A d \in {a.img_dir, a.vid_dir} :
           d.exists => \A f \in d.names : ~contains(a.sc, f)

Hinted(a, t) ==
    is_already_downloaded(a.sc, a.albums_dir, a.img_dir, a.vid_dir, t)

\* C6: with hint "album" the result is true whenever albums/<shortcode> exists;
\* for a shortcode absent from all three directories it is false for every
\* hint; without a hint it is the disjunction of the three hinted checks; a
\* missing directory is no match (the call always returns a boolean).
C6_DedupResult ==
    dd_out # << >> =>
        /\ dd_out[1] \in BOOLEAN
        /\ ( /\ dd_in.post_type = "album"
             /\ dd_in.albums_dir.exists
             /\ dd_in.sc \in dd_in.albums_dir.names ) => dd_out[1]
        /\ Absent(dd_in) => ~dd_out[1]
        /\ dd_in.post_type = "None" =>
               dd_out[1] = ( \/ Hinted(dd_in, "album")
                             \/ Hinted(dd_in, "image")
                             \/ Hinted(dd_in, "video") )

\* no hint, albums/ and individual_images/ missing, a match in individual_videos/
C6_Witness ==
    /\ dd_out = << TRUE >>
    /\ dd_in.post_type = "None"
    /\ ~dd_in.albums_dir.exists
    /\ ~dd_in.img_dir.exists
    /\ dd_in.vid_dir.exists

----
(* Properties of extract_shortcode_from_url *)

PSegment == << "/", "p", "/" >>

\* the longest run of characters other than "/" that starts at position j
RECURSIVE SlashFreeRun(_, _)
SlashFreeRun(url, j) ==
    IF j <= Len(url) /\ url[j] # "/"
    THEN << url[j] >> \o SlashFreeRun(url, j + 1)
    ELSE << >>

\* "/p/" at position i, followed by a character other than "/"
TokenAfterP(url, i) ==
    /\ i + 3 <= Len(url)
    /\ SubSeq(url, i, i + 2) = PSegment
    /\ url[i + 3] # "/"

\* "instagram.com/p/" at position i, followed by a character other than "/"
TokenAfterLiteral(url, i) ==
    /\ i + 16 <= Len(url)
    /\ SubSeq(url, i, i + 15) = PatternLiteral
    /\ url[i + 16] # "/"

\* C7 as stated: every URL with a /p/<token> segment gives <token>, every URL
\* without /p/ fails.
C7_TokenAfterP ==
    sc_out # << >> =>
        /\ (\E i \in 1..Len(url_in) : TokenAfterP(url_in, i)) =>
               LET i == CHOOSE k \in 1..Len(url_in) :
                            /\ TokenAfterP(url_in, k)
                            /\ \A m \in 1..(k - 1) : ~TokenAfterP(url_in, m)
               IN  sc_out[1] = Return(SlashFreeRun(url_in, i + 3))
        /\ ~contains(PSegment, url_in) => ~sc_out[1].ok

\* C7 (amended): a URL in which "instagram.com/p/" is followed by a character
\* other than "/" gives the characters after the leftmost such place up to the
\* next "/" or the end of the string; every other URL, and so every URL
\* without /p/, fails.
C7_TokenAfterInstagramP ==
    sc_out # << >> =>
        LET r == sc_out[1]
            starts == {i \in 1..Len(url_in) : TokenAfterLiteral(url_in, i)}
        IN  /\ starts # {} =>
                   LET i == CHOOSE k \in starts : \A m \in starts : k <= m
                       n == Len(r.val)
                   IN  /\ r.ok
                       /\ n >= 1
                       /\ r.val = SubSeq(url_in, i + 16, i + 15 + n)
                       /\ \A k \in 1..n : r.val[k] # "/"
                       /\ i + 16 + n > Len(url_in) \/ url_in[i + 16 + n] = "/"
            /\ starts = {} => r = ValueError
            /\ ~contains(PSegment, url_in) => r = ValueError

\* a URL without a slash after the token: the text after "?" is part of the result
C7_Witness ==
    /\ sc_out # << >>
    /\ sc_out[1].ok
    /\ url_in[Len(url_in)] # "/"
    /\ contains(<< "?" >>, sc_out[1].val)
    /\ Len(sc_out[1].val) >= 3

====
